---------------------------- MODULE Spec2Model ----------------------------
(***************************************************************************)
(* DuckNo (src/duckno.py): a key/value store over one DuckDB connection.   *)
(*                                                                         *)
(* The store's state is the connection (open or closed, the rows of the    *)
(* k/v table as the connection sees them, the open transaction if any),    *)
(* the resolved database file, and the directories of the file system.     *)
(* Every public call is one action; `ret` holds what the last call gave    *)
(* back to its caller.  Values are JSON values, stored as the text that    *)
(* json.dumps writes and read back with json.loads.                        *)
(***************************************************************************)
EXTENDS Integers, Sequences, FiniteSets, TLC

VARIABLES conn, ret, lastSet, closeCalls, fs, db_file, pc, targ

vars == <<conn, ret, lastSet, closeCalls, fs, db_file, pc, targ>>

(***************************************************************************)
(* Bounds of the model.                                                    *)
(***************************************************************************)
\* integers 0..MaxVal are among the values stored
MaxVal == 0
\* sequences and mappings hold at most MaxLen elements
MaxLen == 1
\* close() calls are counted up to MaxCloseCalls
MaxCloseCalls == 2
\* threads sharing one store
NThreads == 2

(***************************************************************************)
(* Python values, <<tag, payload>>; a "tuple" is Python's                  *)
(* tuple, a "dict" is a sequence of <<key, value>> pairs with distinct     *)
(* string keys in insertion order, "obj" is a value json.dumps rejects.    *)
(***************************************************************************)
PyNone == <<"null", <<>>>>
PyBool(b) == <<"bool", b>>
PyInt(n) == <<"int", n>>
\* a finite float, by its sign, whole part and decimal digits
PyFloat(neg, whole, frac) == <<"float", <<neg, whole, frac>>>>
PyStr(s) == <<"str", s>>
PyList(xs) == <<"list", xs>>
PyTuple(xs) == <<"tuple", xs>>
PyDict(kvs) == <<"dict", kvs>>
PyObj == <<"obj", <<>>>>

Tag(x) == x[1]
Val(x) == x[2]

RECURSIVE Serializable(_)
Serializable(x) ==
    CASE Tag(x) \in {"null", "bool", "int", "float", "str"} -> TRUE
      [] Tag(x) \in {"list", "tuple"} -> \A i \in 1..Len(Val(x)) : Serializable(Val(x)[i])
      [] Tag(x) = "dict" -> \A i \in 1..Len(Val(x)) : Serializable(Val(x)[i][2])
      [] OTHER -> FALSE

(***************************************************************************)
(* json.dumps(value, ensure_ascii=False, separators=(",", ":")): the text  *)
(* is a sequence of characters.                                            *)
(***************************************************************************)
Digits == <<"0", "1", "2", "3", "4", "5", "6", "7", "8", "9">>

RECURSIVE NatRepr(_)
NatRepr(n) == IF n < 10 THEN <<Digits[n + 1]>>
              ELSE NatRepr(n \div 10) \o <<Digits[(n % 10) + 1]>>

IntRepr(n) == IF n < 0 THEN <<"-">> \o NatRepr(-n) ELSE NatRepr(n)

\* float.__repr__ of a float written without exponent
FloatRepr(f) ==
    (IF f[1] THEN <<"-">> ELSE <<>>) \o NatRepr(f[2]) \o <<".">>
        \o [i \in 1..Len(f[3]) |-> Digits[f[3][i] + 1]]

EscapeChar(c) ==
    CASE c = "\"" -> <<"\\", "\"">>
      [] c = "\\" -> <<"\\", "\\">>
      [] c = "\n" -> <<"\\", "n">>
      [] OTHER -> <<c>>

RECURSIVE EscapeStr(_)
EscapeStr(s) == IF s = <<>> THEN <<>>
                ELSE EscapeChar(Head(s)) \o EscapeStr(Tail(s))

\* a string written between quotes as it is
QuoteNoEscape(s) == <<"\"">> \o s \o <<"\"">>

Quote(s) == <<"\"">> \o EscapeStr(s) \o <<"\"">>

RECURSIVE Dumps(_)
RECURSIVE DumpItems(_)
RECURSIVE DumpPairs(_)
DumpItems(xs) ==
    IF xs = <<>> THEN <<>>
    ELSE IF Len(xs) = 1 THEN Dumps(xs[1])
    ELSE Dumps(xs[1]) \o <<",">> \o DumpItems(Tail(xs))

DumpPairs(kvs) ==
    IF kvs = <<>> THEN <<>>
    ELSE LET one == Quote(kvs[1][1]) \o <<":">> \o Dumps(kvs[1][2])
         IN IF Len(kvs) = 1 THEN one
            ELSE one \o <<",">> \o DumpPairs(Tail(kvs))

Dumps(x) ==
    CASE Tag(x) = "null" -> <<"n", "u", "l", "l">>
      [] Tag(x) = "bool" -> IF Val(x) THEN <<"t", "r", "u", "e">>
                         ELSE <<"f", "a", "l", "s", "e">>
      [] Tag(x) = "int" -> IntRepr(Val(x))
      [] Tag(x) = "float" -> FloatRepr(Val(x))
      [] Tag(x) = "str" -> Quote(Val(x))
      [] Tag(x) \in {"list", "tuple"} -> <<"[">> \o DumpItems(Val(x)) \o <<"]">>
      [] Tag(x) = "dict" -> <<"{">> \o DumpPairs(Val(x)) \o <<"}">>

(***************************************************************************)
(* json.loads(text): a recursive-descent parser.  A parse gives            *)
(* [ok, val, pos]: the value read and the position after it.               *)
(***************************************************************************)
Bad == [ok |-> FALSE, val |-> PyNone, pos |-> 0]
Good(x, p) == [ok |-> TRUE, val |-> x, pos |-> p]

At(s, i) == IF i \in 1..Len(s) THEN s[i] ELSE "EOF"

IsDigit(c) == \E d \in 1..10 : Digits[d] = c
DigitVal(c) == (CHOOSE d \in 1..10 : Digits[d] = c) - 1

Literal(s, i, word) ==
    /\ i + Len(word) - 1 <= Len(s)
    /\ SubSeq(s, i, i + Len(word) - 1) = word

RECURSIVE ParseDigits(_, _, _)
ParseDigits(s, i, acc) ==
    IF IsDigit(At(s, i)) THEN ParseDigits(s, i + 1, 10 * acc + DigitVal(s[i]))
    ELSE Good(acc, i)

RECURSIVE ParseFrac(_, _, _)
ParseFrac(s, i, acc) ==
    IF IsDigit(At(s, i)) THEN ParseFrac(s, i + 1, Append(acc, DigitVal(s[i])))
    ELSE Good(acc, i)

\* a number with a fraction part is a float, one without is an int
ParseNumber(s, i) ==
    LET neg == At(s, i) = "-"
        j == IF neg THEN i + 1 ELSE i
    IN IF ~IsDigit(At(s, j)) THEN Bad
       ELSE LET r == ParseDigits(s, j, 0)
                f == ParseFrac(s, r.pos + 1, <<>>)
            IN IF At(s, r.pos) # "."
               THEN Good(PyInt(IF neg THEN -r.val ELSE r.val), r.pos)
               ELSE IF f.val = <<>> THEN Bad
               ELSE Good(PyFloat(neg, r.val, f.val), f.pos)

\* s[i-1] was the opening quote; acc holds the characters read so far
RECURSIVE ParseChars(_, _, _)
ParseChars(s, i, acc) ==
    LET c == At(s, i)
    IN CASE c = "EOF" -> Bad
         [] c = "\"" -> Good(acc, i + 1)
         [] c = "\\" ->
              LET e == At(s, i + 1)
              IN CASE e = "\"" -> ParseChars(s, i + 2, Append(acc, "\""))
                   [] e = "\\" -> ParseChars(s, i + 2, Append(acc, "\\"))
                   [] e = "n" -> ParseChars(s, i + 2, Append(acc, "\n"))
                   [] OTHER -> Bad
         [] c = "\n" -> Bad
         [] OTHER -> ParseChars(s, i + 1, Append(acc, c))

RECURSIVE ParseValue(_, _)
RECURSIVE ParseItems(_, _, _)
RECURSIVE ParsePairs(_, _, _)
\* the elements of an array after "[" or ","
ParseItems(s, i, acc) ==
    LET r == ParseValue(s, i)
    IN IF ~r.ok THEN Bad
       ELSE CASE At(s, r.pos) = "," -> ParseItems(s, r.pos + 1, Append(acc, r.val))
              [] At(s, r.pos) = "]" -> Good(PyList(Append(acc, r.val)), r.pos + 1)
              [] OTHER -> Bad

\* the members of an object after "{" or ","
ParsePairs(s, i, acc) ==
    IF At(s, i) # "\"" THEN Bad
    ELSE LET k == ParseChars(s, i + 1, <<>>)
         IN IF ~k.ok \/ At(s, k.pos) # ":" THEN Bad
            ELSE LET r == ParseValue(s, k.pos + 1)
                     \* a repeated name keeps its last value, as a dict does
                     kept == SelectSeq(acc, LAMBDA kv : kv[1] # k.val)
                     now == Append(kept, <<k.val, r.val>>)
                 IN IF ~r.ok THEN Bad
                    ELSE CASE At(s, r.pos) = "," -> ParsePairs(s, r.pos + 1, now)
                           [] At(s, r.pos) = "}" -> Good(PyDict(now), r.pos + 1)
                           [] OTHER -> Bad

ParseValue(s, i) ==
    LET c == At(s, i)
    IN CASE c = "n" -> IF Literal(s, i, <<"n", "u", "l", "l">>)
                       THEN Good(PyNone, i + 4) ELSE Bad
         [] c = "t" -> IF Literal(s, i, <<"t", "r", "u", "e">>)
                       THEN Good(PyBool(TRUE), i + 4) ELSE Bad
         [] c = "f" -> IF Literal(s, i, <<"f", "a", "l", "s", "e">>)
                       THEN Good(PyBool(FALSE), i + 5) ELSE Bad
         [] c = "-" \/ IsDigit(c) -> ParseNumber(s, i)
         [] c = "\"" -> LET r == ParseChars(s, i + 1, <<>>)
                        IN IF r.ok THEN Good(PyStr(r.val), r.pos) ELSE Bad
         [] c = "[" -> IF At(s, i + 1) = "]" THEN Good(PyList(<<>>), i + 2)
                       ELSE ParseItems(s, i + 1, <<>>)
         [] c = "{" -> IF At(s, i + 1) = "}" THEN Good(PyDict(<<>>), i + 2)
                       ELSE ParsePairs(s, i + 1, <<>>)
         [] OTHER -> Bad

\* [ok |-> FALSE] is json.JSONDecodeError
Loads(s) ==
    LET r == ParseValue(s, 1)
    IN IF r.ok /\ r.pos = Len(s) + 1 THEN [ok |-> TRUE, val |-> r.val]
       ELSE [ok |-> FALSE, val |-> PyNone]

(***************************************************************************)
(* Structural equality: the same JSON shape and contents.  A tuple and a   *)
(* list with equal elements are the same sequence; a mapping is its set of *)
(* members.                                                                *)
(***************************************************************************)
RECURSIVE Shape(_)
Shape(x) ==
    CASE Tag(x) \in {"list", "tuple"} ->
             <<"seq", [i \in 1..Len(Val(x)) |-> Shape(Val(x)[i])]>>
      [] Tag(x) = "dict" ->
             <<"map", {<<Val(x)[i][1], Shape(Val(x)[i][2])>> : i \in 1..Len(Val(x))}>>
      [] OTHER -> x

StructEq(a, b) == Shape(a) = Shape(b)

(***************************************************************************)
(* Keys.  A key argument is a string (a sequence of characters) or some    *)
(* other object; TEXT columns order by code point.                         *)
(***************************************************************************)
StrKey(s) == [isStr |-> TRUE, s |-> s]
NonStrKey == [isStr |-> FALSE, s |-> <<>>]

KA == <<"a">>
KAB == <<"a", "b">>
KB == <<"b">>
ValidKeys == {KA, KAB, KB}
KeyArgs == {StrKey(k) : k \in ValidKeys} \cup {StrKey(<<>>), NonStrKey}

CharCode(c) == CASE c = "a" -> 97 [] c = "b" -> 98 [] OTHER -> 0

RECURSIVE LexLess(_, _)
LexLess(s1, s2) ==
    IF s2 = <<>> THEN FALSE
    ELSE IF s1 = <<>> THEN TRUE
    ELSE IF CharCode(Head(s1)) # CharCode(Head(s2))
         THEN CharCode(Head(s1)) < CharCode(Head(s2))
         ELSE LexLess(Tail(s1), Tail(s2))

(***************************************************************************)
(* The values the calls are given.                                         *)
(***************************************************************************)
SmallValues == {PyNone} \cup {PyInt(n) : n \in 0..MaxVal}
SetArgs == SmallValues \cup {PyObj}
NotFound == PyStr(<<"d", "f", "l", "t">>)
Defaults == {PyNone, NotFound}

IntSamples == {-12} \cup (0..MaxVal)
StrSamples == {<<>>, <<"a", "\"">>, <<"\\", "n", "\n">>}
FloatSamples == {PyFloat(FALSE, 1, <<0>>), PyFloat(TRUE, 0, <<5>>)}
Atoms == {PyNone, PyBool(TRUE), PyBool(FALSE)}
             \cup {PyInt(n) : n \in IntSamples} \cup FloatSamples
             \cup {PyStr(s) : s \in StrSamples}
SeqsOver(S, n) == UNION {[1..m -> S] : m \in 0..n}
DictKeys == {<<"a">>, <<"a", "\"">>}
PairsOver(S, n) ==
    {kvs \in SeqsOver(DictKeys \X S, n) :
        \A i, j \in 1..Len(kvs) : i # j => kvs[i][1] # kvs[j][1]}
Inner == {PyList(<<>>), PyList(<<PyStr(<<"\"">>)>>), PyTuple(<<PyInt(-12)>>),
          PyDict(<< <<KA, PyNone>> >>)}
JsonValues ==
    Atoms \cup {PyList(xs) : xs \in SeqsOver(Atoms, MaxLen)}
          \cup {PyTuple(xs) : xs \in SeqsOver(Atoms, MaxLen)}
          \cup {PyDict(kvs) : kvs \in PairsOver(Atoms, MaxLen)}
          \cup {PyList(xs) : xs \in SeqsOver(Inner, MaxLen)}
          \cup {PyDict(kvs) : kvs \in PairsOver(Inner, MaxLen)}

(***************************************************************************)
(* The connection.  rows is the table as this connection sees it, in       *)
(* physical order; inside a transaction snap is the table as it was at     *)
(* BEGIN.  Each statement gives [err, c]: whether execute() raised, and    *)
(* the connection afterwards.  `fail` is an engine fault in the statement; *)
(* a statement that raises changes nothing, a COMMIT that raises has       *)
(* undone its transaction.  A closed connection raises on every statement. *)
(***************************************************************************)
Row(k, v) == [k |-> k, v |-> v]
Raised(c) == [err |-> TRUE, c |-> c]
Done(c) == [err |-> FALSE, c |-> c]
HasKey(rows, k) == \E i \in 1..Len(rows) : rows[i].k = k

\* duckdb.connect(...) followed by CREATE TABLE IF NOT EXISTS on a new database
Connect == [open |-> TRUE, rows |-> <<>>, txn |-> FALSE, snap |-> <<>>]
NoConn == [open |-> FALSE, rows |-> <<>>, txn |-> FALSE, snap |-> <<>>]

ExecBegin(c, fail) ==
    IF ~c.open \/ fail \/ c.txn THEN Raised(c)
    ELSE Done([c EXCEPT !.txn = TRUE, !.snap = c.rows])

\* DELETE without its WHERE clause
ExecDeleteAll(c, k, fail) ==
    IF ~c.open \/ fail THEN Raised(c)
    ELSE Done([c EXCEPT !.rows = <<>>])

ExecDelete(c, k, fail) ==
    IF ~c.open \/ fail THEN Raised(c)
    ELSE Done([c EXCEPT !.rows = SelectSeq(c.rows, LAMBDA r : r.k # k)])

\* k is the PRIMARY KEY: a second row for k is a constraint error
ExecInsert(c, k, v, fail) ==
    IF ~c.open \/ fail \/ HasKey(c.rows, k) THEN Raised(c)
    ELSE Done([c EXCEPT !.rows = Append(c.rows, Row(k, v))])

ExecCommit(c, fail) ==
    IF ~c.open \/ ~c.txn THEN Raised(c)
    ELSE IF fail THEN Raised([c EXCEPT !.rows = c.snap, !.txn = FALSE, !.snap = <<>>])
    ELSE Done([c EXCEPT !.txn = FALSE, !.snap = <<>>])

ExecRollback(c) ==
    IF ~c.open \/ ~c.txn THEN Raised(c)
    ELSE Done([c EXCEPT !.rows = c.snap, !.txn = FALSE, !.snap = <<>>])

\* SELECT v FROM t WHERE k = ? ... fetchone(): the row, or no row
ExecSelectValue(c, k) ==
    IF ~c.open THEN [err |-> TRUE, found |-> FALSE, v |-> <<>>]
    ELSE IF HasKey(c.rows, k)
         THEN [err |-> FALSE, found |-> TRUE,
               v |-> c.rows[CHOOSE i \in 1..Len(c.rows) : c.rows[i].k = k].v]
         ELSE [err |-> FALSE, found |-> FALSE, v |-> <<>>]

RECURSIVE InsertSorted(_, _)
InsertSorted(k, ks) ==
    IF ks = <<>> THEN <<k>>
    ELSE IF LexLess(k, Head(ks)) THEN <<k>> \o ks
    ELSE <<Head(ks)>> \o InsertSorted(k, Tail(ks))

RECURSIVE SortKeys(_)
SortKeys(ks) == IF ks = <<>> THEN <<>> ELSE InsertSorted(Head(ks), SortKeys(Tail(ks)))

\* SELECT k without ORDER BY
Unordered(ks) == ks

OrderBy(ks) == SortKeys(ks)

\* SELECT k FROM t ORDER BY k ... fetchall()
ExecSelectKeys(c) ==
    IF ~c.open THEN [err |-> TRUE, ks |-> <<>>]
    ELSE [err |-> FALSE, ks |-> OrderBy([i \in 1..Len(c.rows) |-> c.rows[i].k])]

\* conn.close(): "closed", or it raises and the connection is left open
\* ("failed_open") or closed ("failed_closed"); an open transaction is lost
CloseOutcomes == {"closed", "failed_open", "failed_closed"}
ConnClose(c, outcome) ==
    IF ~c.open THEN Done(c)
    ELSE LET gone == [c EXCEPT !.open = FALSE, !.txn = FALSE, !.snap = <<>>,
                               !.rows = IF c.txn THEN c.snap ELSE c.rows]
         IN CASE outcome = "closed" -> Done(gone)
              [] outcome = "failed_closed" -> Raised(gone)
              [] OTHER -> Raised(c)

(***************************************************************************)
(* DuckNo's methods.  What a call gives back: kind "ok" with the value     *)
(* returned (val for get, klist for keys) or kind "raise" with the error;  *)
(* nstmt counts the statements the call sent to the connection; fault is   *)
(* the statement of set's transaction the engine failed in (0: none), and  *)
(* swallowed says that the call suppressed an exception; had says that    *)
(* the key had a row when the call began.                                  *)
(***************************************************************************)
Result(op, key, dflt, fault, kind, err, val, klist, nstmt, swallowed, had) ==
    [op |-> op, key |-> key, dflt |-> dflt, fault |-> fault, kind |-> kind,
     err |-> err, val |-> val, klist |-> klist, nstmt |-> nstmt,
     swallowed |-> swallowed, had |-> had]

\* a check of the type alone
AcceptsEmptyKey(key) == key.isStr

\* _validate_key: TRUE when it returns, FALSE when it raises ValueError
ValidKey(key) == key.isStr /\ key.s # <<>>

\* an except clause that re-raises without ROLLBACK
NoRollback(c) == [c |-> c, swallowed |-> FALSE]

\* the except clause of set: try ROLLBACK, pass if that raises too
OnError(c) == LET r == ExecRollback(c) IN [c |-> r.c, swallowed |-> r.err]

TxnFailed(c, n) ==
    LET h == OnError(c)
    IN [c |-> h.c, err |-> TRUE, nstmt |-> n + 1, swallowed |-> h.swallowed]

\* the try block of set: BEGIN, DELETE, INSERT, COMMIT; f is the statement
\* the engine fails in (0: none)
SetTxn(c, k, payload, f) ==
    LET b == ExecBegin(c, f = 1)
    IN IF b.err THEN TxnFailed(b.c, 1)
       ELSE LET d == ExecDelete(b.c, k, f = 2)
            IN IF d.err THEN TxnFailed(d.c, 2)
               ELSE LET i == ExecInsert(d.c, k, payload, f = 3)
                    IN IF i.err THEN TxnFailed(i.c, 3)
                       ELSE LET m == ExecCommit(i.c, f = 4)
                            IN IF m.err THEN TxnFailed(m.c, 4)
                               ELSE [c |-> m.c, err |-> FALSE, nstmt |-> 4,
                                     swallowed |-> FALSE]

Recorded(k, value) ==
    [x \in DOMAIN lastSet \cup {k} |-> IF x = k THEN value ELSE lastSet[x]]

Set(key, value, f) ==
    /\ IF ~ValidKey(key)
       THEN /\ ret' = Result("set", key, PyNone, 0, "raise", "ValueError", PyNone,
                             <<>>, 0, FALSE, FALSE)
            /\ UNCHANGED <<conn, lastSet>>
       ELSE IF ~Serializable(value)
       THEN /\ ret' = Result("set", key, PyNone, 0, "raise", "TypeError", PyNone,
                             <<>>, 0, FALSE, FALSE)
            /\ UNCHANGED <<conn, lastSet>>
       ELSE LET r == SetTxn(conn, key.s, Dumps(value), f)
            IN /\ conn' = r.c
               /\ ret' = Result("set", key, PyNone, f,
                                IF r.err THEN "raise" ELSE "ok",
                                IF r.err THEN "EngineError" ELSE "", PyNone, <<>>,
                                r.nstmt, r.swallowed, HasKey(conn.rows, key.s))
               /\ lastSet' = IF r.err THEN lastSet ELSE Recorded(key.s, value)
    /\ UNCHANGED <<closeCalls, fs, db_file, pc, targ>>

\* a miss that ignores the caller's default
MissGivesNone(dflt) == PyNone

\* what get returns when the row is absent
OnMiss(dflt) == dflt

Get(key, dflt) ==
    /\ IF ~ValidKey(key)
       THEN ret' = Result("get", key, dflt, 0, "raise", "ValueError", PyNone,
                          <<>>, 0, FALSE, FALSE)
       ELSE LET row == ExecSelectValue(conn, key.s)
                parsed == Loads(row.v)
            IN ret' = IF row.err
                      THEN Result("get", key, dflt, 0, "raise", "EngineError",
                                  PyNone, <<>>, 1, FALSE, FALSE)
                      ELSE IF ~row.found
                      THEN Result("get", key, dflt, 0, "ok", "",
                                  OnMiss(dflt), <<>>, 1, FALSE, row.found)
                      ELSE IF ~parsed.ok
                      THEN Result("get", key, dflt, 0, "raise", "JSONDecodeError",
                                  PyNone, <<>>, 1, FALSE, row.found)
                      ELSE Result("get", key, dflt, 0, "ok", "", parsed.val,
                                  <<>>, 1, FALSE, row.found)
    /\ UNCHANGED <<conn, lastSet, closeCalls, fs, db_file, pc, targ>>

Keys ==
    /\ LET r == ExecSelectKeys(conn)
       IN ret' = Result("keys", NonStrKey, PyNone, 0,
                        IF r.err THEN "raise" ELSE "ok",
                        IF r.err THEN "EngineError" ELSE "", PyNone, r.ks, 1, FALSE, FALSE)
    /\ UNCHANGED <<conn, lastSet, closeCalls, fs, db_file, pc, targ>>

\* close without its try/except
CloseRaises(op, c, outcome) ==
    LET r == ConnClose(c, outcome)
    IN [c |-> r.c,
        ret |-> Result(op, NonStrKey, PyNone, 0, IF r.err THEN "raise" ELSE "ok",
                       IF r.err THEN "EngineError" ELSE "", PyNone, <<>>, 1, FALSE, FALSE)]

\* close: try conn.close(), pass if it raises
DoClose(op, c, outcome) ==
    LET r == ConnClose(c, outcome)
    IN [c |-> r.c,
        ret |-> Result(op, NonStrKey, PyNone, 0, "ok", "", PyNone, <<>>, 1, r.err, FALSE)]

Counted == IF closeCalls < MaxCloseCalls THEN closeCalls + 1 ELSE closeCalls

Close(outcome) ==
    /\ LET r == DoClose("close", conn, outcome)
       IN conn' = r.c /\ ret' = r.ret
    /\ closeCalls' = Counted
    /\ UNCHANGED <<lastSet, fs, db_file, pc, targ>>

\* __exit__: leaving a with-block closes the store
Exit(outcome) ==
    /\ LET r == DoClose("exit", conn, outcome)
       IN conn' = r.c /\ ret' = r.ret
    /\ closeCalls' = Counted
    /\ UNCHANGED <<lastSet, fs, db_file, pc, targ>>

(***************************************************************************)
(* __init__: where the database lives.  A path is a sequence of            *)
(* components, a component a sequence of tokens ("." is the dot), the      *)
(* empty path is the current directory.  fs holds the directories and the  *)
(* regular files that exist.                                               *)
(***************************************************************************)
Dot == "."
DbExt == <<Dot, "db">>
DuckdbExt == <<Dot, "duckdb">>
DucknoDb == <<"duckno">> \o DbExt
Cwd == << <<"cwd">> >>

NoArg == [given |-> FALSE, parts |-> <<>>]
PathArg(parts) == [given |-> TRUE, parts |-> parts]
MemoryArg == PathArg(<< <<":memory:">> >>)

NoFile == [file |-> FALSE, path |-> <<>>]
File(path) == [file |-> TRUE, path |-> path]

Last(seq) == seq[Len(seq)]
Parent(path) == SubSeq(path, 1, Len(path) - 1)
Exists(f, path) == path = <<>> \/ path \in f.dirs \/ path \in f.files
IsDir(f, path) == path = <<>> \/ path \in f.dirs

\* PurePath.suffix: from the last dot of the final component, unless that
\* dot is the component's first or last character
Suffix(path) ==
    LET name == Last(path)
        dots == {i \in 1..Len(name) : name[i] = Dot}
    IN IF dots = {} THEN <<>>
       ELSE LET i == CHOOSE d \in dots : \A e \in dots : e <= d
            IN IF 1 < i /\ i < Len(name) THEN SubSeq(name, i, Len(name)) ELSE <<>>

\* Path(str(p) + ".db")
WithDb(path) == [path EXCEPT ![Len(path)] = @ \o DbExt]

Prefixes(path) == {SubSeq(path, 1, i) : i \in 1..Len(path)}

\* p.parent.mkdir(parents=True, exist_ok=True) when the parent is missing;
\* it raises when a regular file is in the way
MkParent(f, path) ==
    IF Exists(f, Parent(path)) THEN [err |-> FALSE, fs |-> f]
    ELSE IF Prefixes(Parent(path)) \cap f.files # {} THEN [err |-> TRUE, fs |-> f]
    ELSE [err |-> FALSE, fs |-> [f EXCEPT !.dirs = @ \cup Prefixes(Parent(path))]]

\* lines 57-84: [err, file, fs]
Resolve(arg, memory, f) ==
    IF memory \/ arg = MemoryArg THEN [err |-> FALSE, file |-> NoFile, fs |-> f]
    ELSE IF ~arg.given THEN [err |-> FALSE, file |-> File(Cwd \o <<DucknoDb>>), fs |-> f]
    ELSE LET p == arg.parts
             made == MkParent(f, p)
         IN IF Suffix(p) = <<>>
            THEN IF Exists(f, p) /\ IsDir(f, p)
                 THEN [err |-> FALSE, file |-> File(p \o <<DucknoDb>>), fs |-> f]
                 ELSE [err |-> made.err,
                       file |-> File(IF Suffix(p) \in {DbExt, DuckdbExt} THEN p
                                     ELSE WithDb(p)),
                       fs |-> made.fs]
            ELSE [err |-> made.err, file |-> File(p), fs |-> made.fs]

\* duckdb.connect opens or creates the file; its directory must exist
CanConnect(f, file) == ~file.file \/ (IsDir(f, Parent(file.path)) /\ file.path \notin f.dirs)

\* the database_path property
DatabasePath(file) == IF file.file THEN [none |-> FALSE, str |-> file.path]
                      ELSE [none |-> TRUE, str |-> <<>>]

Construct(arg, memory) ==
    /\ ret.op = "new"
    /\ LET r == Resolve(arg, memory, fs)
           ok == ~r.err /\ CanConnect(r.fs, r.file)
       IN /\ fs' = r.fs
          /\ db_file' = IF ok THEN r.file ELSE NoFile
          /\ conn' = IF ok THEN Connect ELSE NoConn
          /\ ret' = [op |-> "init", kind |-> IF ok THEN "ok" ELSE "raise",
                     arg |-> arg, memory |-> memory, fs0 |-> fs,
                     database_path |-> DatabasePath(r.file)]
    /\ UNCHANGED <<lastSet, closeCalls, pc, targ>>

(***************************************************************************)
(* Several threads calling one store.  They share self._conn, and each     *)
(* execute() of set is a step of its own: pc[t] is the statement thread t  *)
(* sends next, targ[t] what it is storing.  get sends one statement.       *)
(***************************************************************************)
Threads == 1..NThreads
Idle == [key |-> <<>>, payload |-> <<>>, value |-> PyNone, n |-> 0]

Goes(t, c, err, next) ==
    /\ conn' = c
    /\ pc' = [pc EXCEPT ![t] = IF err THEN "rollback" ELSE next]
    /\ targ' = [targ EXCEPT ![t].n = @ + 1]
    /\ UNCHANGED <<ret, lastSet, closeCalls, fs, db_file>>

Returns(t, c, kind, swallowed) ==
    /\ conn' = c
    /\ pc' = [pc EXCEPT ![t] = "idle"]
    /\ targ' = [targ EXCEPT ![t] = Idle]
    /\ ret' = Result("set", StrKey(targ[t].key), PyNone, 0, kind,
                     IF kind = "ok" THEN "" ELSE "EngineError", PyNone, <<>>,
                     targ[t].n + 1, swallowed, FALSE)
    /\ lastSet' = IF kind = "ok" THEN Recorded(targ[t].key, targ[t].value)
                  ELSE lastSet
    /\ UNCHANGED <<closeCalls, fs, db_file>>

CallSet(t, key, value) ==
    /\ pc[t] = "idle"
    /\ IF ~ValidKey(key)
       THEN /\ ret' = Result("set", key, PyNone, 0, "raise", "ValueError", PyNone,
                             <<>>, 0, FALSE, FALSE)
            /\ UNCHANGED <<pc, targ>>
       ELSE IF ~Serializable(value)
       THEN /\ ret' = Result("set", key, PyNone, 0, "raise", "TypeError", PyNone,
                             <<>>, 0, FALSE, FALSE)
            /\ UNCHANGED <<pc, targ>>
       ELSE /\ pc' = [pc EXCEPT ![t] = "begin"]
            /\ targ' = [targ EXCEPT ![t] = [key |-> key.s, payload |-> Dumps(value),
                                            value |-> value, n |-> 0]]
            /\ UNCHANGED ret
    /\ UNCHANGED <<conn, lastSet, closeCalls, fs, db_file>>

StepBegin(t) ==
    /\ pc[t] = "begin"
    /\ LET r == ExecBegin(conn, FALSE) IN Goes(t, r.c, r.err, "delete")

StepDelete(t) ==
    /\ pc[t] = "delete"
    /\ LET r == ExecDelete(conn, targ[t].key, FALSE) IN Goes(t, r.c, r.err, "insert")

StepInsert(t) ==
    /\ pc[t] = "insert"
    /\ LET r == ExecInsert(conn, targ[t].key, targ[t].payload, FALSE)
       IN Goes(t, r.c, r.err, "commit")

StepCommit(t) ==
    /\ pc[t] = "commit"
    /\ LET r == ExecCommit(conn, FALSE)
       IN IF r.err THEN Goes(t, r.c, TRUE, "rollback")
          ELSE Returns(t, r.c, "ok", FALSE)

StepRollback(t) ==
    /\ pc[t] = "rollback"
    /\ LET h == OnError(conn) IN Returns(t, h.c, "raise", h.swallowed)

(***************************************************************************)
(* Specifications.                                                         *)
(***************************************************************************)
Failures == 0..4
BaseFs == [dirs |-> {Cwd}, files |-> {}]

\* a new store: DuckNo.in_memory()
Init ==
    /\ conn = Connect
    /\ ret = [op |-> "init", kind |-> "ok", arg |-> MemoryArg, memory |-> TRUE,
              fs0 |-> BaseFs, database_path |-> DatabasePath(NoFile)]
    /\ lastSet = <<>>
    /\ closeCalls = 0
    /\ fs = BaseFs
    /\ db_file = NoFile
    /\ pc = [t \in Threads |-> "idle"]
    /\ targ = [t \in Threads |-> Idle]

\* one caller at a time
Next ==
    \/ \E key \in KeyArgs, value \in SetArgs, f \in Failures : Set(key, value, f)
    \/ \E key \in KeyArgs, dflt \in Defaults : Get(key, dflt)
    \/ Keys
    \/ \E outcome \in CloseOutcomes : Close(outcome)
    \/ \E outcome \in CloseOutcomes : Exit(outcome)

Spec == Init /\ [][Next]_vars

\* one key, every shape of JSON value
JsonNext ==
    \/ \E value \in JsonValues : Set(StrKey(KA), value, 0)
    \/ \E dflt \in Defaults : Get(StrKey(KA), dflt)

JsonSpec == Init /\ [][JsonNext]_vars

\* the key KA was set before the threads start
ConcInit ==
    /\ conn = [Connect EXCEPT !.rows = <<Row(KA, Dumps(PyInt(0)))>>]
    /\ ret = [op |-> "init", kind |-> "ok", arg |-> MemoryArg, memory |-> TRUE,
              fs0 |-> BaseFs, database_path |-> DatabasePath(NoFile)]
    /\ lastSet = [x \in {KA} |-> PyInt(0)]
    /\ closeCalls = 0
    /\ fs = BaseFs
    /\ db_file = NoFile
    /\ pc = [t \in Threads |-> "idle"]
    /\ targ = [t \in Threads |-> Idle]

ConcNext ==
    \/ \E t \in Threads, value \in SmallValues : CallSet(t, StrKey(KA), value)
    \/ \E t \in Threads : StepBegin(t)
    \/ \E t \in Threads : StepDelete(t)
    \/ \E t \in Threads : StepInsert(t)
    \/ \E t \in Threads : StepCommit(t)
    \/ \E t \in Threads : StepRollback(t)
    \/ Get(StrKey(KA), NotFound)

ConcSpec == ConcInit /\ [][ConcNext]_vars

Data == << <<"data">> >>
DataSub == << <<"data">>, <<"sub">> >>
Sub == << <<"sub">> >>
Fs(dirs, files) == [dirs |-> dirs \cup {Cwd}, files |-> files]
FsChoices == {Fs({}, {}), Fs({Data}, {}), Fs({Data, DataSub}, {}), Fs({Sub}, {}),
              Fs({Data}, {DataSub}), Fs({}, {Data})}
PathArgs == {NoArg, MemoryArg, PathArg(DataSub), PathArg(Sub), PathArg(Data),
             PathArg(<<DbExt>>), PathArg(<< <<"data">>, DuckdbExt >>),
             PathArg(<< <<"data">>, <<"mydata">> \o DuckdbExt >>),
             PathArg(<< <<"sub">> \o DbExt >>),
             PathArg(<< <<"data">>, <<"sub">>, <<"deep">> >>)}

\* before __init__ runs
PathInit ==
    /\ conn = NoConn
    /\ ret = [op |-> "new"]
    /\ lastSet = <<>>
    /\ closeCalls = 0
    /\ fs \in FsChoices
    /\ db_file = NoFile
    /\ pc = [t \in Threads |-> "idle"]
    /\ targ = [t \in Threads |-> Idle]

PathNext == \E arg \in PathArgs, memory \in BOOLEAN : Construct(arg, memory)

PathSpec == PathInit /\ [][PathNext]_vars

(***************************************************************************)
(* Properties.                                                             *)
(***************************************************************************)
StoredKeys == {conn.rows[i].k : i \in 1..Len(conn.rows)}
Count(seq, x) == Cardinality({i \in 1..Len(seq) : seq[i] = x})
InvalidKeyArg(key) == ~key.isStr \/ key.s = <<>>
EndsWith(name, ext) ==
    Len(name) >= Len(ext) /\ SubSeq(name, Len(name) - Len(ext) + 1, Len(name)) = ext

\* C1: between calls the table holds exactly one row for every key a set has
\* succeeded on and none for any other key, the row holds the text of the
\* value of the latest successful set on that key, no transaction is left
\* open, and keys() lists every such key exactly once.
C1_OneRecordPerKey ==
    /\ StoredKeys = DOMAIN lastSet
    /\ Len(conn.rows) = Cardinality(StoredKeys)
    /\ \A i \in 1..Len(conn.rows) : conn.rows[i].v = Dumps(lastSet[conn.rows[i].k])
    /\ ~conn.txn
    /\ (ret.op = "keys" /\ ret.kind = "ok")
           => \A k \in DOMAIN lastSet : Count(ret.klist, k) = 1

\* an overwrite of KA succeeded while KB holds another value
C1_Witness ==
    /\ ret.op = "set" /\ ret.kind = "ok" /\ ret.had /\ ret.key = StrKey(KA)
    /\ DOMAIN lastSet = {KA, KB}
    /\ lastSet[KA] = PyInt(0) /\ lastSet[KB] = PyNone

\* C2: a get of a key that was set returns a value structurally equal to the
\* value of the latest successful set on that key.
C2_RoundTrip ==
    (ret.op = "get" /\ ret.key.s \in DOMAIN lastSet)
        => ret.kind = "ok" /\ StructEq(ret.val, lastSet[ret.key.s])

\* a mapping whose name and value hold a quote, a backslash and a newline
\* came back
C2_Witness ==
    /\ ret.op = "get" /\ ret.kind = "ok"
    /\ ret.val = PyDict(<< << <<"a", "\"">>, PyStr(<<"\\", "n", "\n">>) >> >>)

\* C3: a set in whose transaction a statement fails raises, and leaves the
\* rows as they were before the call, with no transaction open.
C3_RollbackOnFailure ==
    [][(ret'.op = "set" /\ ret'.fault \in 1..4)
           => /\ ret'.kind = "raise"
              /\ conn'.rows = conn.rows
              /\ ~conn'.txn
              /\ lastSet' = lastSet]_vars

\* INSERT failed after the DELETE of an existing row, and the row is there
C3_Witness ==
    /\ ret.op = "set" /\ ret.fault = 3 /\ ret.kind = "raise" /\ ret.had
    /\ conn.open /\ HasKey(conn.rows, ret.key.s)

\* C4: while threads set a key that was set before they started, a get of
\* the key never returns the default.
C4_NoGap ==
    (ret.op = "get" /\ ret.key = StrKey(KA)) => (ret.kind = "ok" /\ ret.val # ret.dflt)

\* C5: keys() on an open store does not raise, and returns the stored keys,
\* each once, in ascending order (the empty sequence for an empty table).
C5_KeysSorted ==
    ret.op = "keys"
        => /\ conn.open => ret.kind = "ok"
           /\ ret.kind = "ok"
                  => /\ \A i \in 1..(Len(ret.klist) - 1) :
                            LexLess(ret.klist[i], ret.klist[i + 1])
                     /\ {ret.klist[i] : i \in 1..Len(ret.klist)} = StoredKeys
                     /\ Len(ret.klist) = Cardinality(StoredKeys)

\* keys set in the order b, ab, a are listed a, ab, b
C5_Witness ==
    /\ ret.op = "keys" /\ ret.klist = <<KA, KAB, KB>>
    /\ conn.rows[1].k = KB /\ conn.rows[2].k = KAB

\* C6 as stated: on an open store get returns the default exactly when no set
\* on the key has succeeded.
C6_DefaultExactlyOnMiss ==
    (ret.op = "get" /\ ret.kind = "ok" /\ closeCalls = 0)
        => ((ret.val = ret.dflt) <=> (ret.key.s \notin DOMAIN lastSet))

\* C6 as amended: on an open store get with a valid key does not raise and
\* changes nothing; it returns the default if no set on the key has
\* succeeded, and otherwise the stored value whatever the default is.
C6_Amended ==
    [][(ret'.op = "get" /\ ~InvalidKeyArg(ret'.key) /\ conn.open)
           => /\ ret'.kind = "ok"
              /\ conn' = conn /\ lastSet' = lastSet
              /\ IF ret'.key.s \in DOMAIN lastSet
                 THEN StructEq(ret'.val, lastSet[ret'.key.s])
                 ELSE ret'.val = ret'.dflt]_vars

\* a stored None came back from a get whose default is None
C6_Witness ==
    /\ ret.op = "get" /\ ret.kind = "ok" /\ ret.had
    /\ ret.dflt = PyNone /\ ret.val = PyNone

\* C7: set and get with an empty or non-string key raise ValueError, send no
\* statement and change nothing.
C7_InvalidKey ==
    [][(ret'.op \in {"set", "get"} /\ InvalidKeyArg(ret'.key))
           => /\ ret'.kind = "raise" /\ ret'.err = "ValueError"
              /\ ret'.nstmt = 0
              /\ conn' = conn /\ lastSet' = lastSet]_vars

\* set("", ...) raised on a store that holds rows
C7_Witness ==
    /\ ret.op = "set" /\ ret.key = StrKey(<<>>) /\ ret.err = "ValueError"
    /\ conn.open /\ Len(conn.rows) > 0

\* C8: a path without extension that is an existing directory resolves to
\* duckno.db inside it; any other resolves to the path itself if it ends in
\* .db or .duckdb and to the path with .db appended if not, its parent
\* directory created.
C8_NoExtensionResolution ==
    (/\ ret.op = "init" /\ ret.kind = "ok"
     /\ ~ret.memory /\ ret.arg.given /\ ret.arg # MemoryArg
     /\ Suffix(ret.arg.parts) = <<>>)
        => LET p == ret.arg.parts
           IN /\ ret.database_path = DatabasePath(db_file)
              /\ IF p \in ret.fs0.dirs THEN db_file = File(p \o <<DucknoDb>>)
                 ELSE /\ IsDir(fs, Parent(p))
                      /\ db_file = File(IF \/ EndsWith(Last(p), DbExt)
                                           \/ EndsWith(Last(p), DuckdbExt)
                                        THEN p ELSE WithDb(p))

\* C9: close and __exit__ never raise.
C9_CloseNeverRaises == ret.op \in {"close", "exit"} => ret.kind = "ok"

\* a repeated close in which conn.close() raised
C9_Witness ==
    /\ ret.op = "close" /\ ret.kind = "ok" /\ ret.swallowed /\ closeCalls >= 2

\* C10: once close has been called, set, get and keys raise.
C10_ClosedStoreRaises ==
    (closeCalls >= 1 /\ ret.op \in {"set", "get", "keys"}) => ret.kind = "raise"

=============================================================================
